---- MODULE Spec2Model ----
(***************************************************************************)
(* Model of cmd/markdown-to-pdf: the job loop (executeJobs), the three job *)
(* handlers (renderSubfolders, renderSingle, renderCombine) and the        *)
(* helpers they call.                                                      *)
(*                                                                         *)
(* Representation.  A string is a sequence of chunks, so that Go's string  *)
(* concatenation is sequence concatenation.  A file path is a sequence of  *)
(* segments, each segment a string.  A document is a sequence of tokens    *)
(* [k, v]: "h" is the line "# <v>\n", "c" is the content of the file v,    *)
(* "sep" is a separator string named by v.                                 *)
(***************************************************************************)
EXTENDS Integers, Sequences, FiniteSets, TLC

\* ------------------------------------------------------------------ bounds
MaxJobs == 2
MaxMatches == 2

\* ------------------------------------------------------- the file system
README == <<"README.md">>
NOTES == <<"notes.md">>

\* Files a glob pattern may match, relative to the working directory.
Files ==
  { << <<"a">>, README >>,
    << <<"a">>, NOTES >>,
    << <<"a">>, <<"x">>, README >>,
    << <<"b">>, <<"x">>, README >> }

\* The src subdirectories that exist beside matched files.
SrcSubdirs == { << <<"a">>, <<"src">> >> }

\* The regular files named src that exist beside matched files.
SrcFiles == { << <<"a">>, <<"x">>, <<"src">> >> }

\* zipSourceIfExists: os.IsNotExist of the error of os.Stat(srcDir).
StatNotExist(srcDir) == srcDir \notin SrcSubdirs \cup SrcFiles

\* Results doublestar.Glob may give: an ordered list without duplicates.
MatchSeqs ==
  { s \in UNION { [1..n -> Files] : n \in 0..MaxMatches } :
      \A i, k \in DOMAIN s : i # k => s[i] # s[k] }

\* --------------------------------------------------------------- the jobs
OutDir == << <<"out">> >>
OutSingle == << <<"out">>, <<"guide.pdf">> >>
OutCombine == << <<"out">>, <<"all.pdf">> >>

JobSet ==
  { [Type |-> "subfolders", Source |-> "docs/**/*.md", Output |-> OutDir],
    [Type |-> "single", Source |-> "guides/*.md", Output |-> OutSingle],
    [Type |-> "combine", Source |-> "projects/**/README.md", Output |-> OutCombine],
    [Type |-> "merge", Source |-> "guides/*.md", Output |-> OutSingle] }

JobLists == UNION { [1..n -> JobSet] : n \in 0..MaxJobs }

\* ------------------------------------------------------------ path/filepath
\* filepath.Dir: all but the last segment, "." when nothing is left.
Dir(p) == IF Len(p) <= 1 THEN << <<".">> >> ELSE SubSeq(p, 1, Len(p) - 1)

\* filepath.Base: the last segment.
Base(p) == IF Len(p) = 0 THEN <<".">> ELSE p[Len(p)]

\* filepath.Clean, for paths without "..": drops the "." segments.
Clean(p) ==
  LET kept == SelectSeq(p, LAMBDA s : s # <<".">>)
  IN IF Len(kept) = 0 THEN << <<".">> >> ELSE kept

\* filepath.Join(dir, name)
Join(dir, name) == Clean(Append(dir, name))

\* ------------------------------------------------------------- documents
Heading(name) == << [k |-> "h", v |-> name] >>
Content(f) == << [k |-> "c", v |-> f] >>
BlankLine == << [k |-> "sep", v |-> <<"\n\n">>] >>
Rule == << [k |-> "sep", v |-> <<"\n\n---\n\n">>] >>

\* strings.Join(parts, sep)
RECURSIVE StringsJoin(_, _)
StringsJoin(parts, sep) ==
  IF Len(parts) = 0 THEN <<>>
  ELSE IF Len(parts) = 1 THEN parts[1]
  ELSE parts[1] \o sep \o StringsJoin(Tail(parts), sep)

\* ----------------------------------------------------------- outcomes
\* What doublestar.Glob returns: an error for a malformed pattern, or the
\* ordered list of matches.
GlobOutcomes ==
  { [bad |-> TRUE, ms |-> <<>>] } \cup { [bad |-> FALSE, ms |-> s] : s \in MatchSeqs }

\* Where renderMarkdownToPDF returns: the step that failed, or "ok".  The
\* final os.WriteFile opens the output path with O_TRUNC and then writes: it
\* fails at the open ("openpdf") or after the truncation ("writepdf").
RenderOutcomes ==
  { "readmd", "convert", "mkdirout", "htmlcreate", "htmlwrite",
    "chrome", "timeout", "openpdf", "writepdf", "ok" }

\* Where renderCombinedMarkdown returns.
CombinedOutcomes == { "tmpcreate", "tmpwrite" } \cup RenderOutcomes

\* Where zipFolder returns.
ZipOutcomes == { "zipcreate", "zipwalk", "ok" }

Range(s) == { s[i] : i \in DOMAIN s }

\* ------------------------------------------------------------- helpers
\* findMatches without the check for an empty match list.
FindMatchesNoEmptyCheck(g) ==
  IF g.bad THEN [err |-> "glob", matches |-> <<>>]
  ELSE [err |-> "ok", matches |-> g.ms]

\* findMatches: the glob error, the no-match error, or the matches.
FindMatches(g) ==
  IF g.bad THEN [err |-> "glob", matches |-> <<>>]
  ELSE IF Len(g.ms) = 0 THEN [err |-> "nomatch", matches |-> <<>>]
  ELSE [err |-> "ok", matches |-> g.ms]

\* filterREADMEs letting every file through.
FilterREADMEsAll(files) == files

\* filterREADMEs: the files whose base name is README.md, in order.
FilterREADMEs(files) == SelectSeq(files, LAMBDA f : Base(f) = README)

\* combineMarkdownFiles: the loop over the files; the first failed read
\* returns the error and no content.
RECURSIVE MarkdownParts(_, _)
MarkdownParts(files, bad) ==
  IF Len(files) = 0 THEN [err |-> "ok", parts |-> <<>>]
  ELSE IF Head(files) \in bad THEN [err |-> "read", parts |-> <<>>]
  ELSE LET rest == MarkdownParts(Tail(files), bad)
       IN IF rest.err # "ok" THEN rest
          ELSE [err |-> "ok", parts |-> <<Content(Head(files))>> \o rest.parts]

\* combineMarkdownFiles reading only the files named README.md.
CombineMarkdownFilesReadmesOnly(files, separator, bad) ==
  LET r == MarkdownParts(SelectSeq(files, LAMBDA f : Base(f) = README), bad)
  IN IF r.err # "ok" THEN [err |-> r.err, doc |-> <<>>]
     ELSE [err |-> "ok", doc |-> StringsJoin(r.parts, separator)]

CombineMarkdownFiles(files, separator, bad) ==
  LET r == MarkdownParts(files, bad)
  IN IF r.err # "ok" THEN [err |-> r.err, doc |-> <<>>]
     ELSE [err |-> "ok", doc |-> StringsJoin(r.parts, separator)]

\* combineREADMEsWithHeaders: the parts appended by the loop.
RECURSIVE HeaderParts(_, _)
HeaderParts(readmes, bad) ==
  IF Len(readmes) = 0 THEN <<>>
  ELSE LET readme == Head(readmes)
           folderName == Base(Dir(readme))
           own == IF readme \in bad
                    THEN <<Heading(folderName)>>
                    ELSE <<Heading(folderName), Content(readme)>>
       IN own \o HeaderParts(Tail(readmes), bad)

CombineREADMEsWithHeaders(readmes, bad) ==
  [err |-> "ok", doc |-> StringsJoin(HeaderParts(readmes, bad), Rule)]

\* renderSubfolders naming the artifact after the matched file.
SubfolderConfigByFile(output, m) ==
  [md |-> m, out |-> Join(output, Base(m) \o <<".pdf">>), baseDir |-> Dir(m)]

\* renderSubfolders: the renderConfig built for the match m.
SubfolderConfig(output, m) ==
  LET folder == Dir(m)
      folderName == Base(folder)
  IN [md |-> m, out |-> Join(output, folderName \o <<".pdf">>), baseDir |-> folder]

\* zipSourceIfExists: the archive path.
ZipName(outputDir, baseName) == Join(outputDir, baseName \o <<"_src.zip">>)

\* Temporary files left behind by htmlToPDF: writeTempHTML removes the file
\* itself when writing fails, the deferred os.Remove removes it otherwise.
HTMLTempFile == << <<"tmp">>, <<"markdown-*.html">> >>
CombinedTempFile == << <<"tmp">>, <<"combined-*.md">> >>

\* htmlToPDF without the deferred os.Remove of the temporary file.
HTMLToPDFTempsWithoutDeferredRemove(o) ==
  LET created == IF o \in {"htmlwrite", "chrome", "timeout", "openpdf",
                            "writepdf", "ok"}
                   THEN {HTMLTempFile} ELSE {}
      removed == IF o = "htmlwrite" THEN {HTMLTempFile} ELSE {}
  IN created \ removed

HTMLToPDFTemps(o) ==
  LET created == IF o \in {"htmlwrite", "chrome", "timeout", "openpdf",
                            "writepdf", "ok"}
                   THEN {HTMLTempFile} ELSE {}
      removed == {HTMLTempFile}
  IN created \ removed

RenderCombinedTemps(o) ==
  LET created == IF o = "tmpcreate" THEN {} ELSE {CombinedTempFile}
      removed == {CombinedTempFile}
  IN (created \cup HTMLToPDFTemps(o)) \ removed

\* A map with one key set, and the empty map.
MapSet(m, key, value) ==
  [k \in DOMAIN m \cup {key} |-> IF k = key THEN value ELSE m[k]]

EmptyMap == [k \in {} |-> <<>>]

\* htmlToPDF creating the output file before the renderer has run.
DiskAfterCreatingFirst(disk, outPath, doc, o) ==
  IF o = "ok" THEN MapSet(disk, outPath, [doc |-> doc, complete |-> TRUE])
  ELSE IF o \in {"chrome", "timeout", "writepdf"}
    THEN MapSet(disk, outPath, [doc |-> doc, complete |-> FALSE])
  ELSE disk

\* htmlToPDF: the output files after a render call of doc to outPath that
\* returned at o.  os.WriteFile(outPath, pdfBuf) is the only statement that
\* touches the output path, and it is reached with the complete PDF bytes
\* once generatePDF has returned without an error.
DiskAfter(disk, outPath, doc, o) ==
  IF o = "ok" THEN MapSet(disk, outPath, [doc |-> doc, complete |-> TRUE])
  ELSE IF o = "writepdf"
    THEN MapSet(disk, outPath, [doc |-> doc, complete |-> FALSE])
  ELSE disk

\* ------------------------------------------------------------------ state
VARIABLES
  jobs,        \* main: the jobs returned by loadConfig
  pc,          \* "load"; "exec": executeJobs is about to call executeJob;
               \* "sub": inside the loop of renderSubfolders; "ret": executeJob
               \* has returned; "done"; "fatal"
  ji,          \* executeJobs: index of the current job
  attempted,   \* history: the indices handed to executeJob, in order
  results,     \* history: what executeJob returned for each of them
  glob,        \* the current job: what doublestar.Glob returned
  matches,     \* the current job: what findMatches returned
  unreadable,  \* the current job: the matched files os.ReadFile fails on
  mi,          \* renderSubfolders: index of the next match
  mkdirs,      \* the current job: directories created by os.MkdirAll
  renders,     \* the current job: the render calls, in order
  written,     \* the current job: output files created or replaced
  zips,        \* the current job: the zipFolder calls, in order
  temps,       \* temporary files that exist
  lastErr,     \* where the last render call returned
  disk,        \* the current job: the output files its render calls wrote
  cfgErr       \* main: the error loadConfig returned, "ok" for none

vars ==
  << jobs, pc, ji, attempted, results, glob, matches, unreadable, mi, mkdirs,
     renders, written, zips, temps, lastErr, disk, cfgErr >>

\* The asset embedder run on its own (embedImagesAsBase64).
VARIABLES
  ePc,         \* "off"; "in": content given; "once", "twice": times embedded
  eContent,    \* the HTML content given to the embedder
  eReadable,   \* the image files under the base directory os.ReadFile can read
  eOut,        \* the content returned by each application, in order
  eReads,      \* the image paths each application handed to os.ReadFile
  eErr         \* the error each application returned

embVars == << ePc, eContent, eReadable, eOut, eReads, eErr >>

\* The template hydrator (cmd/template-hydrator).
VARIABLES
  hPc,         \* "off"; "run": in the loop over the entries of the data map
  hTemplate,   \* the content of the template file
  hIsMarkdown, \* isMarkdown
  hData,       \* the entries of the data map not yet rendered
  hDocs        \* what renderDocument did for each entry, in the order taken

hydVars == << hPc, hTemplate, hIsMarkdown, hData, hDocs >>

\* The dashboard indexer (cmd/files-dashboard).
VARIABLES
  dPc,         \* "off"; "ready": may be run; "fatal": ended by log.Fatalf
  dTree,       \* the files under the scan root
  dGit,        \* what the two git commands of getGitHubURL answer
  dFormat,     \* --format
  dOutput,     \* --output
  dOut         \* what each run saw and wrote, in order

dashVars == << dPc, dTree, dGit, dFormat, dOutput, dOut >>

\* The output files of one run, written step by step (os.WriteFile in
\* htmlToPDF, os.Create followed by the writes of zipFolder or of
\* Template.Execute).
VARIABLES
  wPc,         \* "off"; "next": between two files; "writing": a file is
               \* open; "done": the run ended; "killed": the process was killed
  wRun,        \* the output files of the run, in the order it writes them
  wi,          \* index of the file written next
  wPrior,      \* the output files before the run
  wDisk        \* the output files now

wrVars == << wPc, wRun, wi, wPrior, wDisk >>

\* The variables of the other programs of the repository.
others == << embVars, hydVars, dashVars, wrVars >>

EmbOff ==
  /\ ePc = "off"
  /\ eContent = <<>>
  /\ eReadable = {}
  /\ eOut = <<>>
  /\ eReads = <<>>
  /\ eErr = <<>>

HydOff ==
  /\ hPc = "off"
  /\ hTemplate = <<>>
  /\ hIsMarkdown = FALSE
  /\ hData = {}
  /\ hDocs = <<>>

DashOff ==
  /\ dPc = "off"
  /\ dTree = {}
  /\ dGit = [remoteErr |-> TRUE, remote |-> <<>>, branchErr |-> TRUE, branch |-> ""]
  /\ dFormat = ""
  /\ dOutput = <<>>
  /\ dOut = <<>>

WriteOff ==
  /\ wPc = "off"
  /\ wRun = <<>>
  /\ wi = 1
  /\ wPrior = << >>
  /\ wDisk = << >>

OthersOff == EmbOff /\ HydOff /\ DashOff /\ WriteOff

\* Before a job calls doublestar.Glob.
NoGlob == [bad |-> FALSE, ms |-> <<>>]

\* What loadConfig may return: a read error, a parse error, or the jobs.
ConfigOutcomes ==
  { [err |-> "readconfig", jobs |-> <<>>], [err |-> "parseyaml", jobs |-> <<>>] }
    \cup { [err |-> "ok", jobs |-> js] : js \in JobLists }

Init ==
  /\ jobs = <<>>
  /\ pc = "load"
  /\ ji = 1
  /\ attempted = <<>>
  /\ results = <<>>
  /\ glob = NoGlob
  /\ matches = <<>>
  /\ unreadable = {}
  /\ mi = 1
  /\ mkdirs = {}
  /\ renders = <<>>
  /\ written = {}
  /\ zips = <<>>
  /\ temps = {}
  /\ lastErr = "ok"
  /\ disk = EmptyMap
  /\ cfgErr = "ok"
  /\ OthersOff

\* main going on to executeJobs whatever loadConfig returned.
AfterLoadConfigIgnoringError(c) == IF Len(c.jobs) = 0 THEN "done" ELSE "exec"

\* main after loadConfig returned c: log.Fatalf on its error, executeJobs
\* otherwise.
AfterLoadConfig(c) ==
  IF c.err # "ok" THEN "fatal"
  ELSE IF Len(c.jobs) = 0 THEN "done" ELSE "exec"

\* main: loadConfig and what follows it.
LoadConfig ==
  /\ pc = "load"
  /\ UNCHANGED others
  /\ \E c \in ConfigOutcomes :
       /\ jobs' = c.jobs
       /\ cfgErr' = c.err
       /\ pc' = AfterLoadConfig(c)
  /\ UNCHANGED << ji, attempted, results, glob, matches, unreadable, mi,
                  mkdirs, renders, written, zips, temps, lastErr, disk >>

\* executeJobs leaving the loop at the first failed job.
ExecuteJobsNextAbort(i, res) == IF res = "ok" THEN i + 1 ELSE Len(jobs) + 1

\* executeJobs: the loop goes on to the next job whatever executeJob returned.
ExecuteJobsNext(i, res) == i + 1

\* renderSubfolders returning the error of the first failed render.
SubfoldersStopOnError(ok) == ~ok

\* renderSubfolders: whether the loop over the matches ends after a render
\* (a failed render is logged and the loop continues).
SubfoldersStop(ok) == FALSE

\* The error class executeJob returns when a render call returned at o.
RenderErr(o) == IF o = "ok" THEN "ok" ELSE "render"

\* The values a job that fails before any side effect leaves behind.
NoEffect(res) ==
  [res |-> res, matches |-> <<>>, unreadable |-> {}, mkdirs |-> {},
   renders |-> <<>>, written |-> {}, temps |-> {}, lastErr |-> "ok",
   disk |-> EmptyMap]

\* renderCombinedMarkdown(content, outputPath, baseDir) returning at o; the
\* base directory falls back to the directory of the markdown file.
RenderCombinedMarkdown(content, outputPath, baseDir, o) ==
  [call |-> [md |-> CombinedTempFile, out |-> outputPath,
             baseDir |-> IF baseDir = <<>> THEN Dir(CombinedTempFile) ELSE baseDir,
             doc |-> content, ok |-> (o = "ok")],
   written |-> IF o = "ok" THEN {outputPath} ELSE {},
   temps |-> RenderCombinedTemps(o),
   disk |-> DiskAfter(EmptyMap, outputPath, content, o)]

\* renderSingle with glob result g, MkdirAll succeeding iff mk, the files in
\* bad unreadable, and the render returning at o.
SingleRun(j, g, mk, bad, o) ==
  LET fm == FindMatches(g)
      cm == CombineMarkdownFiles(fm.matches, BlankLine, bad)
      baseDir == IF Len(fm.matches) > 0 THEN Dir(fm.matches[1]) ELSE <<>>
      rc == RenderCombinedMarkdown(cm.doc, j.Output, baseDir, o)
      seen == [NoEffect("ok") EXCEPT !.matches = fm.matches, !.unreadable = bad]
  IN IF fm.err # "ok" THEN NoEffect(fm.err)
     ELSE IF ~mk THEN [seen EXCEPT !.res = "mkdir"]
     ELSE IF cm.err # "ok"
       THEN [seen EXCEPT !.res = cm.err, !.mkdirs = {Dir(j.Output)}]
     ELSE [seen EXCEPT !.res = RenderErr(o), !.mkdirs = {Dir(j.Output)},
                       !.renders = <<rc.call>>, !.written = rc.written,
                       !.temps = rc.temps, !.lastErr = o,
                       !.disk = rc.disk]

\* renderCombine, with the same inputs.
CombineRun(j, g, mk, bad, o) ==
  LET fm == FindMatches(g)
      readmes == FilterREADMEs(fm.matches)
      cr == CombineREADMEsWithHeaders(readmes, bad)
      baseDir == IF Len(readmes) > 0 THEN Dir(readmes[1]) ELSE <<>>
      rc == RenderCombinedMarkdown(cr.doc, j.Output, baseDir, o)
      seen == [NoEffect("ok") EXCEPT !.matches = fm.matches, !.unreadable = bad]
  IN IF fm.err # "ok" THEN NoEffect(fm.err)
     ELSE IF ~mk THEN [seen EXCEPT !.res = "mkdir"]
     ELSE IF Len(readmes) = 0
       THEN [seen EXCEPT !.res = "noreadme", !.mkdirs = {Dir(j.Output)}]
     ELSE IF cr.err # "ok"
       THEN [seen EXCEPT !.res = cr.err, !.mkdirs = {Dir(j.Output)}]
     ELSE [seen EXCEPT !.res = RenderErr(o), !.mkdirs = {Dir(j.Output)},
                       !.renders = <<rc.call>>, !.written = rc.written,
                       !.temps = rc.temps, !.lastErr = o,
                       !.disk = rc.disk]

\* The inputs of a job as far as the job looks at them: nothing is read
\* after a failed findMatches or MkdirAll, nothing is rendered after a
\* failed combination.
Looked(g, mk, bad, o, combineErr) ==
  /\ (FindMatches(g).err # "ok") => mk
  /\ (FindMatches(g).err # "ok" \/ ~mk) => (bad = {} /\ o = "ok")
  /\ combineErr => (o = "ok")

\* executeJob returned r for a job that ran as one step.
JobDone(g, r) ==
  /\ glob' = g
  /\ matches' = r.matches
  /\ unreadable' = r.unreadable
  /\ mkdirs' = r.mkdirs
  /\ renders' = r.renders
  /\ written' = r.written
  /\ zips' = <<>>
  /\ temps' = (temps \cup r.temps)
  /\ lastErr' = r.lastErr
  /\ disk' = r.disk
  /\ mi' = 1
  /\ attempted' = Append(attempted, ji)
  /\ results' = Append(results, r.res)
  /\ pc' = "ret"
  /\ UNCHANGED << jobs, ji, cfgErr >>

\* executeJob, case "single".
RenderSingle ==
  /\ pc = "exec"
  /\ UNCHANGED others
  /\ jobs[ji].Type = "single"
  /\ \E g \in GlobOutcomes, mk \in BOOLEAN, o \in CombinedOutcomes :
       \E bad \in SUBSET Range(g.ms) :
         LET r == SingleRun(jobs[ji], g, mk, bad, o)
         IN /\ Looked(g, mk, bad, o, r.res = "read")
            /\ JobDone(g, r)

\* executeJob, case "combine".
RenderCombine ==
  /\ pc = "exec"
  /\ UNCHANGED others
  /\ jobs[ji].Type = "combine"
  /\ \E g \in GlobOutcomes, mk \in BOOLEAN, o \in CombinedOutcomes :
       \E bad \in SUBSET Range(g.ms) :
         LET r == CombineRun(jobs[ji], g, mk, bad, o)
         IN /\ Looked(g, mk, bad, o, r.res \in {"read", "noreadme"})
            /\ JobDone(g, r)

\* executeJob, default case: unknown job type.
UnknownType ==
  /\ pc = "exec"
  /\ UNCHANGED others
  /\ jobs[ji].Type \notin {"subfolders", "single", "combine"}
  /\ JobDone(NoGlob, NoEffect("unknowntype"))

\* renderSubfolders up to the loop: findMatches, then os.MkdirAll(j.Output).
SubStart ==
  /\ pc = "exec"
  /\ UNCHANGED others
  /\ jobs[ji].Type = "subfolders"
  /\ \E g \in GlobOutcomes, mk \in BOOLEAN :
       \E bad \in SUBSET Range(g.ms) :
         LET fm == FindMatches(g)
         IN /\ Looked(g, mk, bad, "ok", FALSE)
            /\ IF fm.err # "ok" THEN JobDone(g, NoEffect(fm.err))
               ELSE IF ~mk
                 THEN JobDone(g, [NoEffect("mkdir") EXCEPT !.matches = fm.matches])
               ELSE /\ glob' = g
                    /\ matches' = fm.matches
                    /\ unreadable' = bad
                    /\ mkdirs' = {jobs[ji].Output}
                    /\ renders' = <<>>
                    /\ written' = {}
                    /\ zips' = <<>>
                    /\ lastErr' = "ok"
                    /\ disk' = EmptyMap
                    /\ mi' = 1
                    /\ attempted' = Append(attempted, ji)
                    /\ pc' = "sub"
                    /\ UNCHANGED << jobs, ji, results, temps, cfgErr >>

\* renderSubfolders taking every match for a marker file.
IsMarkerFileAnyMatch(m) == TRUE

\* renderSubfolders: the matches it renders (filepath.Base(m) == "README.md").
IsMarkerFile(m) == Base(m) = README

\* renderSubfolders returns res.
SubReturn(res) ==
  /\ results' = Append(results, res)
  /\ pc' = "ret"

\* One iteration of the loop of renderSubfolders, for the match m.
SubMatch ==
  /\ pc = "sub"
  /\ UNCHANGED others
  /\ mi <= Len(matches)
  /\ LET j == jobs[ji]
         m == matches[mi]
         cfg == SubfolderConfig(j.Output, m)
         folder == Dir(m)
         folderName == Base(folder)
         zipName == ZipName(j.Output, folderName)
         srcDir == Append(folder, <<"src">>)
         hasSrc == ~StatNotExist(srcDir)
     IN IF ~IsMarkerFile(m)
          THEN \* continue
               /\ mi' = mi + 1
               /\ UNCHANGED << jobs, pc, ji, attempted, results, glob,
                               matches, unreadable, mkdirs, renders, written,
                               zips, temps, lastErr, disk, cfgErr >>
          ELSE \E o \in RenderOutcomes, z \in ZipOutcomes :
                 /\ (o = "readmd") <=> (m \in unreadable)
                 /\ (o # "ok" \/ ~hasSrc) => (z = "ok")
                 /\ renders' = Append(renders,
                       [md |-> cfg.md, out |-> cfg.out, baseDir |-> cfg.baseDir,
                        doc |-> IF o = "readmd" THEN <<>> ELSE Content(m),
                        ok |-> (o = "ok")])
                 /\ lastErr' = o
                 /\ temps' = (temps \cup HTMLToPDFTemps(o))
                 /\ disk' = DiskAfter(disk, cfg.out,
                                      IF o = "readmd" THEN <<>> ELSE Content(m), o)
                 /\ IF o = "ok" /\ hasSrc
                      THEN \* zipSourceIfExists found the src directory
                           /\ zips' = Append(zips, [src |-> srcDir, zip |-> zipName, ok |-> (z = "ok")])
                           /\ written' = written \cup {cfg.out}
                                 \cup (IF z = "zipcreate" THEN {} ELSE {zipName})
                      ELSE /\ zips' = zips
                           /\ written' = written \cup (IF o = "ok" THEN {cfg.out} ELSE {})
                 /\ IF SubfoldersStop(o = "ok")
                      THEN /\ mi' = mi
                           /\ SubReturn(RenderErr(o))
                      ELSE /\ mi' = mi + 1
                           /\ UNCHANGED << pc, results >>
                 /\ UNCHANGED << jobs, ji, attempted, glob, matches, unreadable,
                                 mkdirs, cfgErr >>

\* renderSubfolders after the loop: return nil.
SubEnd ==
  /\ pc = "sub"
  /\ UNCHANGED others
  /\ mi > Len(matches)
  /\ SubReturn("ok")
  /\ UNCHANGED << jobs, ji, attempted, glob, matches, unreadable, mi, mkdirs,
                  renders, written, zips, temps, lastErr, disk, cfgErr >>

\* executeJobs: executeJob has returned; its error, if any, is logged and
\* the loop goes on.  The records of the finished job are dropped.
LoopNext ==
  /\ pc = "ret"
  /\ UNCHANGED others
  /\ LET next == ExecuteJobsNext(ji, results[Len(results)])
     IN /\ ji' = next
        /\ pc' = IF next <= Len(jobs) THEN "exec" ELSE "done"
  /\ glob' = NoGlob
  /\ matches' = <<>>
  /\ unreadable' = {}
  /\ mi' = 1
  /\ mkdirs' = {}
  /\ renders' = <<>>
  /\ written' = {}
  /\ zips' = <<>>
  /\ lastErr' = "ok"
  /\ disk' = EmptyMap
  /\ UNCHANGED << jobs, attempted, results, temps, cfgErr >>

Next ==
  \/ LoadConfig
  \/ RenderSingle
  \/ RenderCombine
  \/ UnknownType
  \/ SubStart
  \/ SubMatch
  \/ SubEnd
  \/ LoopNext

Spec == Init /\ [][Next]_vars

\* The job loop at rest, for the specifications of the other programs.
JobOff ==
  /\ jobs = <<>>
  /\ pc = "off"
  /\ ji = 1
  /\ attempted = <<>>
  /\ results = <<>>
  /\ glob = NoGlob
  /\ matches = <<>>
  /\ unreadable = {}
  /\ mi = 1
  /\ mkdirs = {}
  /\ renders = <<>>
  /\ written = {}
  /\ zips = <<>>
  /\ temps = {}
  /\ lastErr = "ok"
  /\ disk = EmptyMap
  /\ cfgErr = "ok"

\* =========================================================== asset embedder
\* HTML content is a sequence of items: a run of text that imgRegex does not
\* match, or an img tag that it matches.  A tag is given by the matches of
\* srcRegex in it, left to right: the quote and the value of each src="..."
\* (the regex has no word boundary, so data-src="..." is one of them).

MaxItems == 2

ImgBaseDir == << <<"docs">> >>

LocalUrls == { <<"logo", ".png">>, <<"photo", ".PNG">>, <<"chart", ".dat">> }
RemoteUrls == { <<"http://", "host/a.png">>, <<"https://", "host/b.png">> }
InlineUrls == { <<"data:", "image/gif", ";base64,", "R0lGODdh">> }

SrcAttrs == [q : {"\"", "'"}, url : LocalUrls \cup RemoteUrls \cup InlineUrls]

\* The src attributes of the tags with two matches of srcRegex.
SecondAttrs ==
  { a \in SrcAttrs :
      /\ a.q = "\""
      /\ a.url \in { <<"logo", ".png">>, <<"https://", "host/b.png">>,
                     <<"data:", "image/gif", ";base64,", "R0lGODdh">> } }

ImgTags ==
  { [k |-> "img", v |-> "", attrs |-> <<a>>] : a \in SrcAttrs }
    \cup { [k |-> "img", v |-> "", attrs |-> <<a, b>>] : a, b \in SecondAttrs }

TextItems ==
  { [k |-> "text", v |-> "<p>Hello</p>", attrs |-> <<>>],
    [k |-> "text", v |-> "<img alt=\"no source\">", attrs |-> <<>>] }

Contents == UNION { [1..n -> ImgTags \cup TextItems] : n \in 0..MaxItems }

\* The image files that may exist under the base directory.
ImageFiles == { Join(ImgBaseDir, u) : u \in LocalUrls }

\* base64.StdEncoding.EncodeToString of the bytes of each image file.
ImageData == ("logo" :> "bG9nbw==") @@ ("photo" :> "cGhvdG8=") @@ ("chart" :> "Y2hhcnQ=")

\* strings.HasPrefix, on the first chunk of the string.
HasPrefix(str, prefix) == Len(str) > 0 /\ str[1] = prefix

\* filepath.Ext: the last chunk of the file name when it is an extension.
FilepathExt(path) ==
  LET name == Base(path)
      last == name[Len(name)]
  IN IF last \in {".png", ".PNG", ".dat", ".svg", ".jpg", ".pdf", ".zip", ".html", ".md", ".txt"}
       THEN last
     ELSE IF last = "_src.zip" THEN ".zip"
     ELSE ""

\* strings.ToLower, chunk by chunk.
ToLower(chunk) ==
  CASE chunk = ".PNG" -> ".png"
    [] chunk = ".MD" -> ".md"
    [] chunk = "<!DOCTYPE" -> "<!doctype"
    [] chunk = "<STYLE" -> "<style"
    [] OTHER -> chunk

\* mime.TypeByExtension: the built-in table, "" for an unknown extension.
TypeByExtension(ext) ==
  CASE ext = ".png" -> "image/png"
    [] ext = ".svg" -> "image/svg+xml"
    [] ext = ".jpg" -> "image/jpeg"
    [] OTHER -> ""

\* getMimeType: the mime package, then the fallback map, then image/png.
GetMimeType(filePath) ==
  LET ext == ToLower(FilepathExt(filePath))
      mimeType == TypeByExtension(ext)
  IN IF mimeType # "" THEN mimeType
     ELSE CASE ext = ".png" -> "image/png"
            [] ext = ".jpg" -> "image/jpeg"
            [] ext = ".svg" -> "image/svg+xml"
            [] OTHER -> "image/png"

\* extractSrcAttribute: the first match of srcRegex, "" when there is none.
ExtractSrcAttribute(imgTag) ==
  IF Len(imgTag.attrs) = 0 THEN <<>> ELSE imgTag.attrs[1].url

\* isAbsoluteOrDataURL without the https:// prefix.
IsAbsoluteOrDataURLNoHTTPS(url) ==
  HasPrefix(url, "data:") \/ HasPrefix(url, "http://")

\* isAbsoluteOrDataURL
IsAbsoluteOrDataURL(url) ==
  HasPrefix(url, "data:") \/ HasPrefix(url, "http://") \/ HasPrefix(url, "https://")

\* imageToDataURL: the read error, or data:<mime>;base64,<data>.
ImageToDataURL(srcPath, baseDir, readable) ==
  LET imagePath == Join(baseDir, srcPath)
  IN IF imagePath \notin readable THEN [err |-> "read", url |-> <<>>]
     ELSE [err |-> "ok",
           url |-> <<"data:", GetMimeType(imagePath), ";base64,",
                     ImageData[Base(imagePath)[1]]>>]

\* replaceImageSrc: every match of srcRegex becomes src="<newSrc>".
ReplaceImageSrc(imgTag, newSrc) ==
  [imgTag EXCEPT !.attrs = [i \in DOMAIN imgTag.attrs |-> [q |-> "\"", url |-> newSrc]]]

\* The callback rewriting the tag also when its source is skipped.
EmbedTagNormalising(imgTag, baseDir, readable) ==
  LET srcPath == ExtractSrcAttribute(imgTag)
      d == ImageToDataURL(srcPath, baseDir, readable)
  IN IF srcPath = <<>> THEN [tag |-> imgTag, reads |-> {}]
     ELSE IF IsAbsoluteOrDataURL(srcPath)
       THEN [tag |-> ReplaceImageSrc(imgTag, srcPath), reads |-> {}]
     ELSE IF d.err # "ok" THEN [tag |-> imgTag, reads |-> {Join(baseDir, srcPath)}]
     ELSE [tag |-> ReplaceImageSrc(imgTag, d.url), reads |-> {Join(baseDir, srcPath)}]

\* embedImagesAsBase64: the callback of ReplaceAllStringFunc, with the file
\* it handed to os.ReadFile.
EmbedTag(imgTag, baseDir, readable) ==
  LET srcPath == ExtractSrcAttribute(imgTag)
      d == ImageToDataURL(srcPath, baseDir, readable)
  IN IF srcPath = <<>> THEN [tag |-> imgTag, reads |-> {}]
     ELSE IF IsAbsoluteOrDataURL(srcPath) THEN [tag |-> imgTag, reads |-> {}]
     ELSE IF d.err # "ok" THEN [tag |-> imgTag, reads |-> {Join(baseDir, srcPath)}]
     ELSE [tag |-> ReplaceImageSrc(imgTag, d.url), reads |-> {Join(baseDir, srcPath)}]

\* embedImagesAsBase64 giving up at an unreadable image.
EmbedAbortOnReadError(htmlContent, baseDir, readable) ==
  LET tags == { i \in DOMAIN htmlContent : htmlContent[i].k = "img" }
      reads == UNION { EmbedTag(htmlContent[i], baseDir, readable).reads : i \in tags }
  IN IF reads \subseteq readable
       THEN [err |-> "ok",
             content |-> [i \in DOMAIN htmlContent |->
                            IF i \in tags
                              THEN EmbedTag(htmlContent[i], baseDir, readable).tag
                              ELSE htmlContent[i]],
             reads |-> reads]
       ELSE [err |-> "read", content |-> <<>>, reads |-> reads]

\* embedImagesAsBase64: ReplaceAllStringFunc over the img tags; the error is
\* always nil.
EmbedImagesAsBase64(htmlContent, baseDir, readable) ==
  LET tags == { i \in DOMAIN htmlContent : htmlContent[i].k = "img" }
  IN [err |-> "ok",
      content |-> [i \in DOMAIN htmlContent |->
                     IF i \in tags
                       THEN EmbedTag(htmlContent[i], baseDir, readable).tag
                       ELSE htmlContent[i]],
      reads |-> UNION { EmbedTag(htmlContent[i], baseDir, readable).reads : i \in tags }]

EmbedInit ==
  /\ JobOff
  /\ HydOff
  /\ DashOff
  /\ WriteOff
  /\ ePc = "in"
  /\ eContent \in Contents
  /\ eReadable \in SUBSET ImageFiles
  /\ eOut = <<>>
  /\ eReads = <<>>
  /\ eErr = <<>>

\* One call of embedImagesAsBase64, on the given content and then on what
\* the call before returned.
EmbedApply ==
  /\ ePc \in {"in", "once"}
  /\ LET input == IF ePc = "in" THEN eContent ELSE eOut[Len(eOut)]
         r == EmbedImagesAsBase64(input, ImgBaseDir, eReadable)
     IN /\ eOut' = Append(eOut, r.content)
        /\ eReads' = Append(eReads, r.reads)
        /\ eErr' = Append(eErr, r.err)
  /\ ePc' = IF ePc = "in" THEN "once" ELSE "twice"
  /\ UNCHANGED << eContent, eReadable >>
  /\ UNCHANGED << vars, hydVars, dashVars, wrVars >>

EmbedNext == EmbedApply

EmbedSpec == EmbedInit /\ [][EmbedNext]_embVars

\* ======================================================= template hydrator
\* Template and document content are sequences of items as in the embedder:
\* a text item holds one chunk of the text.

MaxChunks == 2

TemplatePaths == { <<"exam", ".html">>, <<"exam", ".md">>, <<"EXAM", ".MD">> }

Chunks ==
  { "<!DOCTYPE", "<html", "<head", "<STYLE", "er>", ">", "# Report", "{{.Student}}" }

TemplateItems ==
  { [k |-> "text", v |-> c, attrs |-> <<>>] : c \in Chunks }
    \cup { [k |-> "img", v |-> "", attrs |-> << [q |-> "'", url |-> <<"logo", ".png">>] >>] }

Templates == UNION { [1..n -> TemplateItems] : n \in 1..MaxChunks }

\* The entries of the JSON data file: name, object with or without Title.
Alice == [name |-> "alice", hasTitle |-> FALSE, title |-> "", student |-> "Ann"]
AliceTitled == [name |-> "alice", hasTitle |-> TRUE, title |-> "Final Exam", student |-> "Ann"]
Bob == [name |-> "bob", hasTitle |-> FALSE, title |-> "", student |-> "<style>"]

DataMaps == { {Alice}, {AliceTitled}, {AliceTitled, Bob} }

\* strings.HasSuffix, on the last chunk of the string.
HasSuffix(str, suffix) == Len(str) > 0 /\ str[Len(str)] = suffix

\* html/template escaping of a value put into the text of the document.
HTMLEscape(value) == IF value = "<style>" THEN "&lt;style&gt;" ELSE value

\* tmpl.Execute: every action of the template replaced by the escaped field.
Execute(tmpl, data) ==
  [i \in DOMAIN tmpl |->
     IF tmpl[i].k = "text" /\ tmpl[i].v = "{{.Student}}"
       THEN [tmpl[i] EXCEPT !.v = HTMLEscape(data.student)]
       ELSE tmpl[i]]

\* mdConverter.ToHTML: a heading line becomes a heading element with its
\* id, raw HTML passes (html.WithUnsafe).
ToHTML(content) ==
  [i \in DOMAIN content |->
     IF content[i].k = "text" /\ content[i].v = "# Report"
       THEN [content[i] EXCEPT !.v = "<h1 id=\"report\">Report</h1>"]
       ELSE content[i]]

\* strings.Contains(strings.ToLower(content), marker)
ContainsLower(content, marker) ==
  \E i \in DOMAIN content : content[i].k = "text" /\ ToLower(content[i].v) = marker

\* isCompleteHTMLDocument
IsCompleteHTMLDocument(content) ==
  \/ ContainsLower(content, "<!doctype")
  \/ ContainsLower(content, "<html")
  \/ ContainsLower(content, "<head")
  \/ ContainsLower(content, "<style")

\* wrapHTML: the shell with the title, around the content.
WrapHTML(content, title) ==
  << [k |-> "shell", v |-> title, attrs |-> <<>>] >> \o content
    \o << [k |-> "shell-end", v |-> "", attrs |-> <<>>] >>

\* The title handed to wrapHTML: the name, or the Title of the data.
TitleOf(data) == IF data.hasTitle THEN data.title ELSE data.name

\* The condition of the else branch of renderDocument.
NeedsWrap(isMarkdown, content) == ~(~isMarkdown /\ IsCompleteHTMLDocument(content))

\* The outcomes of tmpl.Execute and pdf.FromHTML for one document.
DocOutcomes == {"ok", "execute", "pdf"}

\* renderDocument
RenderDocument(tmpl, data, isMarkdown, imageBasePath, outcome) ==
  LET executed == Execute(tmpl, data)
      html == IF isMarkdown THEN ToHTML(executed) ELSE executed
      content == EmbedImagesAsBase64(html, imageBasePath, ImageFiles).content
      wrap == NeedsWrap(isMarkdown, content)
  IN IF outcome = "execute"
       THEN [name |-> data.name, err |-> "execute", content |-> <<>>,
             wraps |-> 0, full |-> <<>>]
       ELSE [name |-> data.name, err |-> outcome, content |-> content,
             wraps |-> IF wrap THEN 1 ELSE 0,
             full |-> IF wrap THEN WrapHTML(content, TitleOf(data)) ELSE content]

HydInit ==
  /\ JobOff
  /\ EmbOff
  /\ DashOff
  /\ WriteOff
  /\ hPc = "run"
  /\ hTemplate \in Templates
  /\ \E path \in TemplatePaths :
       hIsMarkdown = HasSuffix([i \in DOMAIN path |-> ToLower(path[i])], ".md")
  /\ hData \in DataMaps
  /\ hDocs = <<>>

\* One iteration of the range over the data map (in map order).
HydRenderDocument ==
  /\ hPc = "run"
  /\ \E data \in hData, outcome \in DocOutcomes :
       /\ hDocs' = Append(hDocs, RenderDocument(hTemplate, data, hIsMarkdown,
                                                 ImgBaseDir, outcome))
       /\ hData' = hData \ {data}
  /\ UNCHANGED << hPc, hTemplate, hIsMarkdown >>
  /\ UNCHANGED << vars, embVars, dashVars, wrVars >>

HydNext == HydRenderDocument

HydSpec == HydInit /\ [][HydNext]_hydVars

\* ========================================================= files dashboard
MaxFiles == 4
MaxRuns == 3

\* len("_src.zip")
SrcZipLen == 8

DashSource == << <<"output">> >>

DashOutputs ==
  { << <<"output">>, <<"files-dashboard", ".html">> >>,
    << <<"docs">>, <<"index", ".md">> >> }

DashFormats == {"html", "markdown", "both"}

\* The files that may be under the scan root, in the order of filepath.Walk
\* (lexical in every directory, a directory walked where its name sorts).
WalkOrder ==
  << << <<"output">>, <<"a">>, <<"demo", ".pdf">> >>,
     << <<"output">>, <<"a">>, <<"demo", "_src.zip">> >>,
     << <<"output">>, <<"a">>, <<"my notes", ".txt">> >>,
     << <<"output">>, <<"a">>, <<"notes", ".zip">> >>,
     << <<"output">>, <<"b">>, <<"Zeta", ".pdf">> >>,
     << <<"output">>, <<"b">>, <<"_src.zip">> >>,
     << <<"output">>, <<"b">>, <<"demo", ".pdf">> >>,
     << <<"output">>, <<"demo", ".pdf">> >>,
     << <<"output">>, <<"demo", "_src.zip">> >>,
     << <<"output">>, <<"files-dashboard", ".html">> >>,
     << <<"output">>, <<"files-dashboard", ".md">> >> >>

\* The trees the indexer is first run on.
DashTrees ==
  { t \in SUBSET { WalkOrder[i] : i \in 1..9 } : Cardinality(t) <= MaxFiles }

\* The file names and the folders above, in the byte order of Go's <.
NameOrder ==
  << <<"Zeta", ".pdf">>, <<"_src.zip">>, <<"demo", ".pdf">>, <<"demo", "_src.zip">>,
     <<"files-dashboard", ".html">>, <<"files-dashboard", ".md">>,
     <<"my notes", ".txt">>, <<"notes", ".zip">> >>

FolderOrder ==
  << << <<"output">> >>, << <<"output">>, <<"a">> >>, << <<"output">>, <<"b">> >> >>

Pos(order, x) == CHOOSE i \in DOMAIN order : order[i] = x

NameLess(a, b) == Pos(NameOrder, a) < Pos(NameOrder, b)

FolderLess(a, b) == Pos(FolderOrder, a) < Pos(FolderOrder, b)

\* len, of one chunk and of a name.
CharLen(chunk) ==
  CASE chunk = "_src.zip" -> 8
    [] chunk = "files-dashboard" -> 15
    [] chunk = "my notes" -> 8
    [] chunk = "notes" -> 5
    [] chunk \in {"demo", "Zeta", ".pdf", ".zip"} -> 4
    [] chunk = ".html" -> 5
    [] OTHER -> 3

RECURSIVE NameLen(_)
NameLen(name) == IF Len(name) = 0 THEN 0 ELSE CharLen(name[1]) + NameLen(Tail(name))

\* The test of both passes: extension .zip, longer than the suffix, ending
\* with _src.zip.
IsSourceZip(name) ==
  /\ FilepathExt(<< name >>) = ".zip"
  /\ NameLen(name) > SrcZipLen
  /\ name[Len(name)] = "_src.zip"

\* pdfPath of pass 1: the name without _src.zip, with .pdf, in the directory
\* of the archive.
PdfPathOf(zipPath) ==
  LET baseName == Base(zipPath)
  IN Join(Dir(zipPath), SubSeq(baseName, 1, Len(baseName) - 1) \o <<".pdf">>)

\* filepath.Join of two paths.
JoinPaths(a, b) == Clean(a \o b)

\* filepath.Rel of clean relative paths.
RECURSIVE Rel(_, _)
Rel(basepath, targpath) ==
  IF Len(basepath) > 0 /\ Len(targpath) > 0 /\ basepath[1] = targpath[1]
    THEN Rel(Tail(basepath), Tail(targpath))
  ELSE IF Len(basepath) = 0 /\ Len(targpath) = 0 THEN << <<".">> >>
  ELSE [i \in 1..Len(basepath) |-> <<"..">>] \o targpath

\* filepath.Walk: the files of the tree in walk order.
Walk(tree) == SelectSeq(WalkOrder, LAMBDA p : p \in tree)

\* A map assignment m[key] = value.
\* pdfToZip keyed by the file name of the PDF alone.
PdfKeyByName(path) == << Base(path) >>

\* The key of pdfToZip: the path of the PDF.
PdfKey(path) == path

\* Pass 1: pdfToZip, from the path of a PDF that os.Stat finds to the path
\* of its archive relative to the scan root.
RECURSIVE Pass1(_, _, _, _)
Pass1(files, source, tree, pdfToZip) ==
  IF Len(files) = 0 THEN pdfToZip
  ELSE LET path == files[1]
           paired == /\ IsSourceZip(Base(path))
                     /\ PdfPathOf(path) \in tree
       IN Pass1(Tail(files), source, tree,
                IF paired THEN MapSet(pdfToZip, PdfKey(PdfPathOf(path)), Rel(source, path))
                          ELSE pdfToZip)

\* Pass 2 skipping only the archives that have their PDF.
Pass2FilesKeepingUnpaired(tree) ==
  SelectSeq(Walk(tree),
            LAMBDA p : ~(IsSourceZip(Base(p)) /\ PdfPathOf(p) \in tree))

\* Pass 2 skipping every .zip file.
Pass2FilesNoZips(tree) == SelectSeq(Walk(tree), LAMBDA p : FilepathExt(p) # ".zip")

\* The files pass 2 lists: all but the _src.zip archives.
Pass2Files(tree) == SelectSeq(Walk(tree), LAMBDA p : ~IsSourceZip(Base(p)))

\* Pass 2: sections, from a folder to its entries in walk order.
RECURSIVE Pass2(_, _, _, _)
Pass2(files, source, pdfToZip, sections) ==
  IF Len(files) = 0 THEN sections
  ELSE LET path == files[1]
           folder == Dir(path)
           zipRel == IF FilepathExt(path) = ".pdf" /\ PdfKey(path) \in DOMAIN pdfToZip
                       THEN pdfToZip[PdfKey(path)] ELSE <<>>
           entry == [Name |-> Base(path), Path |-> Rel(source, path), Zip |-> zipRel]
           before == IF folder \in DOMAIN sections THEN sections[folder] ELSE <<>>
       IN Pass2(Tail(files), source, pdfToZip,
                MapSet(sections, folder, Append(before, entry)))

\* The orders in which a slice of n elements can be arranged.
Perms(seq) ==
  { [i \in DOMAIN seq |-> seq[f[i]]] :
      f \in { g \in [DOMAIN seq -> DOMAIN seq] : \A i, j \in DOMAIN seq : i # j => g[i] # g[j] } }

\* The files of a section left in reverse order of name.
SortFilesDescending(files) ==
  LET names == SelectSeq(NameOrder, LAMBDA n : \E j \in DOMAIN files : files[j].Name = n)
  IN [i \in DOMAIN names |->
        files[CHOOSE j \in DOMAIN files : files[j].Name = names[Len(names) + 1 - i]]]

\* sort.Slice by Name: the entries in the order of their names (the names
\* of the files of a folder are distinct).
SortFiles(files) ==
  LET names == SelectSeq(NameOrder, LAMBDA n : \E j \in DOMAIN files : files[j].Name = n)
  IN [i \in DOMAIN names |->
        files[CHOOSE j \in DOMAIN files : files[j].Name = names[i]]]

\* The sections left in the order of the range over the map.
SectionsInMapOrder(ordered) == ordered

\* sort.Slice by Folder: the sections in the order of their folders (the
\* folders are the keys of a map, hence distinct).
SortSections(ordered) ==
  LET folders == SelectSeq(FolderOrder,
                           LAMBDA f : \E j \in DOMAIN ordered : ordered[j].Folder = f)
  IN [i \in DOMAIN folders |->
        ordered[CHOOSE j \in DOMAIN ordered : ordered[j].Folder = folders[i]]]

\* The sorted sections, the map being ranged over in mapOrder.
Ordered(sections, mapOrder) ==
  SortSections([i \in DOMAIN mapOrder |->
                  [Folder |-> mapOrder[i], Files |-> SortFiles(sections[mapOrder[i]])]])

\* url.PathEscape of one chunk of a file name: a space becomes %20.
PathEscapeChunk(chunk) == IF chunk = "my notes" THEN "my%20notes" ELSE chunk

\* urlEncodePath with filepath.ToSlash alone.
UrlEncodePathToSlashOnly(path) == StringsJoin(path, <<"/">>)

\* urlEncodePath: url.PathEscape of the slash-separated path, which escapes
\* the slashes too.
UrlEncodePath(path) ==
  StringsJoin([i \in DOMAIN path |->
                 [k \in DOMAIN path[i] |-> PathEscapeChunk(path[i][k])]],
              <<"%2F">>)

\* strings.TrimSuffix(url, ".git")
TrimGitSuffix(url) ==
  IF Len(url) > 0 /\ url[Len(url)] = ".git" THEN SubSeq(url, 1, Len(url) - 1) ELSE url

\* What the two git commands may answer.
GitStates ==
  { [remoteErr |-> TRUE, remote |-> <<>>, branchErr |-> TRUE, branch |-> ""],
    [remoteErr |-> FALSE, remote |-> <<"https://gitlab.com/", "u/r", ".git">>,
     branchErr |-> FALSE, branch |-> "dev"] }
    \cup { [remoteErr |-> FALSE, remote |-> r, branchErr |-> b[1], branch |-> b[2]] :
             r \in { <<"git@github.com:", "u/r", ".git">>,
                     <<"https://github.com/", "u/r", ".git">>,
                     <<"https://github.com/", "u/r">> },
             b \in { <<TRUE, "">>, <<FALSE, "dev">> } }

\* getGitHubURL
GetGitHubURL(git) ==
  IF git.remoteErr THEN [url |-> <<>>, branch |-> ""]
  ELSE IF ~(HasPrefix(git.remote, "git@github.com:") \/ HasPrefix(git.remote, "https://github.com/"))
    THEN [url |-> <<>>, branch |-> ""]
  ELSE LET url == <<"https://github.com/">> \o TrimGitSuffix(Tail(git.remote))
       IN IF git.branchErr THEN [url |-> url, branch |-> "main"]
          ELSE [url |-> url, branch |-> git.branch]

\* The output path with its extension replaced.
WithExt(output, ext) ==
  LET name == Base(output)
  IN IF FilepathExt(output) = ext THEN output
     ELSE Join(Dir(output), SubSeq(name, 1, Len(name) - 1) \o << ext >>)

\* The sections with every path relative to the directory of the catalog
\* file (adjustedHTMLSections, adjustedSections).
AdjustedSections(ordered, source, outputDir) ==
  [i \in DOMAIN ordered |->
     [Folder |-> ordered[i].Folder,
      Files |-> [j \in DOMAIN ordered[i].Files |->
                   LET file == ordered[i].Files[j]
                   IN [Name |-> file.Name,
                       Path |-> UrlEncodePath(Rel(outputDir, JoinPaths(source, file.Path))),
                       Zip |-> IF file.Zip # <<>>
                                 THEN UrlEncodePath(Rel(outputDir, JoinPaths(source, file.Zip)))
                                 ELSE <<>>]]]]

\* The sections with every path below the remote and the branch
\* (githubSections in the template of the first branch).
GithubSections(ordered, source, repoURL, branch) ==
  [i \in DOMAIN ordered |->
     [Folder |-> ordered[i].Folder,
      Files |-> [j \in DOMAIN ordered[i].Files |->
                   LET file == ordered[i].Files[j]
                       root == repoURL \o <<"/", branch, "/">>
                   IN [Name |-> file.Name,
                       Path |-> root \o UrlEncodePath(JoinPaths(source, file.Path)),
                       Zip |-> IF file.Zip # <<>>
                                 THEN root \o UrlEncodePath(JoinPaths(source, file.Zip))
                                 ELSE <<>>]]]]

\* The HTML catalog: the file written and the sections of its template.
HTMLCatalog(ordered, source, output) ==
  LET htmlOutput == WithExt(output, ".html")
  IN [file |-> htmlOutput,
      sections |-> AdjustedSections(ordered, source, Dir(htmlOutput))]

\* The markdown catalog.
MarkdownCatalog(ordered, source, output, repoURL, branch) ==
  LET mdOutput == WithExt(output, ".md")
  IN [file |-> mdOutput,
      sections |-> IF repoURL # <<>> /\ branch # ""
                     THEN GithubSections(ordered, source, repoURL, branch)
                     ELSE AdjustedSections(ordered, source, Dir(mdOutput))]

\* main creating its catalog files before the two walks.
DashboardScanningOwnCatalogs(tree, git, source, output, format, mapOrder) ==
  LET gh == GetGitHubURL(git)
      own == (IF format \in {"html", "both"} THEN {WithExt(output, ".html")} ELSE {})
               \cup (IF format \in {"markdown", "both"} THEN {WithExt(output, ".md")} ELSE {})
      seen == tree \cup (own \cap Range(WalkOrder))
      pdfToZip == Pass1(Walk(seen), source, seen, EmptyMap)
      sections == Pass2(Pass2Files(seen), source, pdfToZip, EmptyMap)
      ordered == Ordered(sections, SelectSeq(FolderOrder, LAMBDA f : f \in DOMAIN sections))
  IN [tree |-> tree,
      ordered |-> ordered,
      html |-> IF format \in {"html", "both"}
                 THEN << HTMLCatalog(ordered, source, output) >> ELSE <<>>,
      md |-> IF format \in {"markdown", "both"}
               THEN << MarkdownCatalog(ordered, source, output, gh.url, gh.branch) >>
               ELSE <<>>]

\* main: what one run over the tree writes, the map of sections being
\* ranged over in mapOrder.
Dashboard(tree, git, source, output, format, mapOrder) ==
  LET gh == GetGitHubURL(git)
      pdfToZip == Pass1(Walk(tree), source, tree, EmptyMap)
      sections == Pass2(Pass2Files(tree), source, pdfToZip, EmptyMap)
      ordered == Ordered(sections, mapOrder)
  IN [tree |-> tree,
      ordered |-> ordered,
      html |-> IF format \in {"html", "both"}
                 THEN << HTMLCatalog(ordered, source, output) >> ELSE <<>>,
      md |-> IF format \in {"markdown", "both"}
               THEN << MarkdownCatalog(ordered, source, output, gh.url, gh.branch) >>
               ELSE <<>>]

\* The folders of the files pass 2 lists.
FoldersOf(tree) == { Dir(p) : p \in Range(Pass2Files(tree)) }

\* Where log.Fatalf ends a run before anything is written.
FatalOutcomes == {"scan", "mkdir"}

DashInit ==
  /\ JobOff
  /\ EmbOff
  /\ HydOff
  /\ WriteOff
  /\ dPc = "ready"
  /\ dTree \in DashTrees
  /\ dGit \in GitStates
  /\ dFormat \in DashFormats
  /\ dOutput \in DashOutputs
  /\ dOut = <<>>

\* One run of main: ended by log.Fatalf at a failed walk or MkdirAll, or
\* writing the catalogs (which may be files under the scan root).
DashRun ==
  /\ dPc = "ready"
  /\ Len(dOut) < MaxRuns
  /\ \E outcome \in FatalOutcomes \cup {"ok"},
        mapOrder \in Perms(SelectSeq(FolderOrder, LAMBDA f : f \in FoldersOf(dTree))) :
       IF outcome # "ok"
         THEN /\ mapOrder = SelectSeq(FolderOrder, LAMBDA f : f \in FoldersOf(dTree))
              /\ dPc' = "fatal"
              /\ UNCHANGED << dTree, dOut >>
         ELSE LET run == Dashboard(dTree, dGit, DashSource, dOutput, dFormat, mapOrder)
                  files == { c.file : c \in Range(run.html \o run.md) }
              IN /\ dOut' = Append(dOut, run)
                 /\ dTree' = dTree \cup (files \cap Range(WalkOrder))
                 /\ dPc' = dPc
  /\ UNCHANGED << dGit, dFormat, dOutput >>
  /\ UNCHANGED << vars, embVars, hydVars, wrVars >>

DashNext == DashRun

DashSpec == DashInit /\ [][DashNext]_dashVars

\* ============================================================ output files
\* An output file is written in pieces: the data of os.WriteFile, the
\* entries and the directory of the zip writer, the nodes of the template.
MaxPieces == 2

\* The output files of a run of markdown-to-pdf for one marker file (the
\* artifact, then the archive of its src directory) and of a run of
\* files-dashboard with --format both (the HTML catalog, then the markdown
\* catalog).
WriteRuns == { << "artifact", "archive" >>, << "html", "md" >> }

\* A file that does not exist, and a complete file of n pieces.
Absent == [ver |-> "none", written |-> 0, total |-> 0]
Whole(ver, n) == [ver |-> ver, written |-> n, total |-> n]

\* os.WriteFile and os.Create open the path with O_CREATE|O_TRUNC: the file
\* exists and is empty from then on, total pieces are still to be written.
Truncated(total) == [ver |-> "new", written |-> 0, total |-> total]

WriteInit ==
  /\ JobOff
  /\ EmbOff
  /\ HydOff
  /\ DashOff
  /\ wPc = "next"
  /\ wRun \in WriteRuns
  /\ wi = 1
  /\ wPrior \in [Range(wRun) -> {Absent} \cup { Whole("old", n) : n \in 1..MaxPieces }]
  /\ wDisk = wPrior

\* The run opens its next output file; a failed open leaves the file alone
\* and ends the run (log.Fatalf) or its work on this marker.
WriteOpen ==
  /\ wPc = "next"
  /\ wi <= Len(wRun)
  /\ \E opened \in BOOLEAN, total \in 1..MaxPieces :
       IF opened
         THEN /\ wDisk' = [wDisk EXCEPT ![wRun[wi]] = Truncated(total)]
              /\ wPc' = "writing"
         ELSE /\ total = 1
              /\ wDisk' = wDisk
              /\ wPc' = "done"
  /\ UNCHANGED << wRun, wi, wPrior >>
  /\ UNCHANGED << vars, embVars, hydVars, dashVars >>

\* One more piece reaches the open file, or the write fails and leaves the
\* file as far as it was written.
WritePiece ==
  /\ wPc = "writing"
  /\ wDisk[wRun[wi]].written < wDisk[wRun[wi]].total
  /\ \E wrote \in BOOLEAN :
       IF wrote
         THEN /\ wDisk' = [wDisk EXCEPT ![wRun[wi]].written = @ + 1]
              /\ wPc' = "writing"
         ELSE /\ wDisk' = wDisk
              /\ wPc' = "done"
  /\ UNCHANGED << wRun, wi, wPrior >>
  /\ UNCHANGED << vars, embVars, hydVars, dashVars >>

\* The file is complete and closed; the run goes on to its next file.
WriteClose ==
  /\ wPc = "writing"
  /\ wDisk[wRun[wi]].written = wDisk[wRun[wi]].total
  /\ wi' = wi + 1
  /\ wPc' = IF wi + 1 <= Len(wRun) THEN "next" ELSE "done"
  /\ UNCHANGED << wRun, wPrior, wDisk >>
  /\ UNCHANGED << vars, embVars, hydVars, dashVars >>

\* The process is killed: nothing more is written.
WriteKill ==
  /\ wPc \in {"next", "writing"}
  /\ wPc' = "killed"
  /\ UNCHANGED << wRun, wi, wPrior, wDisk >>
  /\ UNCHANGED << vars, embVars, hydVars, dashVars >>

WriteNext ==
  \/ WriteOpen
  \/ WritePiece
  \/ WriteClose
  \/ WriteKill

WriteSpec == WriteInit /\ [][WriteNext]_wrVars

\* ================================================================ claims
IsReadme(f) == f[Len(f)] = <<"README.md">>
ParentOf(f) == SubSeq(f, 1, Len(f) - 1)
FolderNameOf(f) == f[Len(f) - 1]
LastRes == results[Len(results)]
Returned(t) == pc = "ret" /\ jobs[ji].Type = t
Occurrences(d, tok) == Cardinality({ i \in DOMAIN d : d[i] = tok })
ContentTok(f) == [k |-> "c", v |-> f]
HeadingTok(name) == [k |-> "h", v |-> name]
BlankTok == [k |-> "sep", v |-> <<"\n\n">>]
RuleTok == [k |-> "sep", v |-> <<"\n\n---\n\n">>]
MatchedReadmes == SelectSeq(matches, IsReadme)

\* C1: executeJob is called for the jobs 1, 2, ... in configuration order,
\* each once, and when executeJobs is done every job of the list has been
\* attempted and has returned, whatever the earlier jobs returned.
C1_EveryJobAttemptedInOrder ==
  /\ Len(attempted) <= Len(jobs)
  /\ \A i \in DOMAIN attempted : attempted[i] = i
  /\ pc = "done" => (Len(attempted) = Len(jobs) /\ Len(results) = Len(jobs))

C1_Witness ==
  /\ pc = "done"
  /\ Len(jobs) = 2
  /\ Len(attempted) = 2
  /\ results[1] # "ok"

\* C2: a single, subfolders or combine job whose glob matched no file
\* returns the no-match error without a render call, an output file or an
\* archive.
C2_NoMatchWritesNothing ==
  (/\ pc = "ret"
   /\ jobs[ji].Type \in {"single", "subfolders", "combine"}
   /\ ~glob.bad
   /\ glob.ms = <<>>)
  => (/\ LastRes = "nomatch"
      /\ renders = <<>>
      /\ written = {}
      /\ zips = <<>>)

C2_Witness ==
  /\ Returned("single")
  /\ ~glob.bad
  /\ glob.ms = <<>>
  /\ LastRes = "nomatch"

\* C3: in a subfolders job every matched README.md the loop has passed has
\* a render call with output <output>/<parent folder name>.pdf and base
\* directory the parent folder, the output exists once the render succeeded,
\* and no file is written for a match of another name.
C3_ArtifactNamedByParentFolder ==
  (pc \in {"sub", "ret"} /\ jobs[ji].Type = "subfolders")
  => (/\ \A i \in DOMAIN renders :
           LET m == renders[i].md
           IN /\ m \in Range(matches)
              /\ IsReadme(m)
              /\ renders[i].out = Append(jobs[ji].Output, FolderNameOf(m) \o <<".pdf">>)
              /\ renders[i].baseDir = ParentOf(m)
              /\ renders[i].ok => renders[i].out \in written
      /\ \A k \in 1..(mi - 1) :
           (k \in DOMAIN matches /\ IsReadme(matches[k]))
             => \E i \in DOMAIN renders : renders[i].md = matches[k]
      /\ \A w \in written :
           \/ \E i \in DOMAIN renders : renders[i].ok /\ renders[i].out = w
           \/ \E i \in DOMAIN zips : zips[i].zip = w)

C3_Witness ==
  /\ Returned("subfolders")
  /\ << <<"a">>, NOTES >> \in Range(matches)
  /\ \E i \in DOMAIN renders :
       /\ renders[i].md = << <<"a">>, <<"x">>, README >>
       /\ renders[i].ok
       /\ renders[i].out = << <<"out">>, <<"x", ".pdf">> >>
       /\ renders[i].out \in written

\* C4 (as claimed): in a subfolders job two marker files in distinct folders
\* are never published to the same artifact path.
C4_DistinctFoldersDistinctArtifacts ==
  (pc \in {"sub", "ret"} /\ jobs[ji].Type = "subfolders")
  => \A i, k \in DOMAIN renders :
       (/\ i # k
        /\ renders[i].ok
        /\ renders[k].ok
        /\ ParentOf(renders[i].md) # ParentOf(renders[k].md))
       => renders[i].out # renders[k].out

\* The combined document of C5: heading and content of each entry adjacent,
\* the separator between consecutive entries only.
RECURSIVE EntriesJoined(_)
EntriesJoined(rs) ==
  IF Len(rs) = 0 THEN <<>>
  ELSE << HeadingTok(FolderNameOf(rs[1])), ContentTok(rs[1]) >>
         \o (IF Len(rs) > 1 THEN <<RuleTok>> \o EntriesJoined(Tail(rs)) ELSE <<>>)

\* C5 (as claimed): the document a combine job hands to the renderer is the
\* entries heading+content of its marker files in resolver order, with the
\* separator only between consecutive entries (n-1 times).
C5_SeparatorOnlyBetweenEntries ==
  (/\ Returned("combine")
   /\ Len(renders) = 1
   /\ \A r \in Range(MatchedReadmes) : r \notin unreadable)
  => (/\ renders[1].doc = EntriesJoined(MatchedReadmes)
      /\ Occurrences(renders[1].doc, RuleTok) = Len(MatchedReadmes) - 1)

\* C6: a combine job that got past MkdirAll fails with the no-marker error,
\* which is not the no-match error, and calls no render when none of its
\* matches is named README.md; otherwise the other files cause no error and
\* contribute no content to the one document rendered.
C6_OnlyReadmesCombined ==
  (Returned("combine") /\ mkdirs # {})
  => (/\ Len(matches) > 0
      /\ Len(MatchedReadmes) = 0
           => (/\ LastRes = "noreadme"
               /\ LastRes # "nomatch"
               /\ renders = <<>>
               /\ written = {})
      /\ Len(MatchedReadmes) > 0
           => (/\ LastRes \in {"ok", "render"}
               /\ Len(renders) = 1
               /\ \A f \in Range(matches) :
                    ~IsReadme(f) => Occurrences(renders[1].doc, ContentTok(f)) = 0))

C6_Witness ==
  /\ Returned("combine")
  /\ Len(matches) > 0
  /\ Len(MatchedReadmes) = 0
  /\ LastRes = "noreadme"

\* C7: a single job whose matches are all readable makes exactly one render
\* call, for its output path, with the contents of all matches in resolver
\* order joined by the blank-line delimiter and with the parent folder of
\* the first match as base directory.
C7_SingleConcatenatesAllMatches ==
  (Returned("single") /\ mkdirs # {} /\ unreadable = {})
  => (/\ Len(matches) > 0
      /\ Len(renders) = 1
      /\ renders[1].out = jobs[ji].Output
      /\ renders[1].baseDir = ParentOf(matches[1])
      /\ Len(renders[1].doc) = 2 * Len(matches) - 1
      /\ \A k \in DOMAIN matches : renders[1].doc[2 * k - 1] = ContentTok(matches[k])
      /\ \A k \in 1..(Len(matches) - 1) : renders[1].doc[2 * k] = BlankTok)

C7_Witness ==
  /\ Returned("single")
  /\ unreadable = {}
  /\ Len(matches) = 2
  /\ ~IsReadme(matches[1])
  /\ Len(renders) = 1
  /\ Len(renders[1].doc) = 3
  /\ renders[1].ok

\* C8 (as claimed): a single job in which reading one of several matched
\* files fails still makes its render call, with the contents of the
\* readable matches in resolver order.
C8_SingleSkipsUnreadableFile ==
  (/\ Returned("single")
   /\ mkdirs # {}
   /\ Cardinality(unreadable) = 1
   /\ Len(matches) > 1)
  => (/\ Len(renders) = 1
      /\ LET readable == SelectSeq(matches, LAMBDA f : f \notin unreadable)
         IN /\ Len(renders[1].doc) = (IF Len(readable) = 0 THEN 0 ELSE 2 * Len(readable) - 1)
            /\ \A k \in DOMAIN readable :
                 renders[1].doc[2 * k - 1] = ContentTok(readable[k]))

\* C9 (as claimed): in the document of a combine job an unreadable marker
\* file has neither heading nor content, and every readable one has both:
\* a folder name heads as many entries as readable marker files bear it.
C9_UnreadableReadmeLeavesNoHeading ==
  (Returned("combine") /\ Len(renders) = 1)
  => \A r \in Range(MatchedReadmes) :
       /\ Occurrences(renders[1].doc, ContentTok(r)) = (IF r \in unreadable THEN 0 ELSE 1)
       /\ Occurrences(renders[1].doc, HeadingTok(FolderNameOf(r)))
            = Cardinality({ i \in DOMAIN MatchedReadmes :
                              /\ MatchedReadmes[i] \notin unreadable
                              /\ FolderNameOf(MatchedReadmes[i]) = FolderNameOf(r) })

\* C10: a subfolders job that reached its loop returns no error and has made
\* a render call for every matched README.md, whichever of them failed to be
\* read or rendered.
C10_SubfoldersContinuesAfterFailure ==
  (Returned("subfolders") /\ mkdirs # {})
  => (/\ LastRes = "ok"
      /\ Len(renders) = Len(MatchedReadmes)
      /\ \A i \in DOMAIN renders : renders[i].md = MatchedReadmes[i])

C10_Witness ==
  /\ Returned("subfolders")
  /\ LastRes = "ok"
  /\ Len(renders) = 2
  /\ ~renders[1].ok
  /\ renders[2].ok
  /\ renders[2].out \in written


\* ---------------------------------------------------------------- embedder
\* The src value of an image reference and its class, as the specification
\* words them.
SrcValueOf(item) == item.attrs[1].url

ClassOf(url) ==
  IF url[1] = "data:" THEN "inline-data"
  ELSE IF url[1] \in {"http://", "https://"} THEN "remote"
  ELSE "local-relative"

ImageRefs(content) == { i \in DOMAIN content : content[i].k = "img" }

FileOf(item) == Join(ImgBaseDir, SrcValueOf(item))

\* An image reference rewritten to a data reference.
IsDataReference(item) ==
  \A j \in DOMAIN item.attrs : item.attrs[j].url[1] = "data:"

\* C11: embedding what an embedding returned returns it unchanged, and
\* content whose image references are all inline-data references is returned
\* unchanged by the first embedding already.
C11_EmbeddingIdempotent ==
  /\ ePc = "twice" => eOut[2] = eOut[1]
  /\ (/\ ePc # "in"
      /\ \A i \in ImageRefs(eContent) : ClassOf(SrcValueOf(eContent[i])) = "inline-data")
     => eOut[1] = eContent

\* Embedded twice: the first embedding rewrote a readable local image next
\* to an inline-data reference.
C11_Witness ==
  /\ ePc = "twice"
  /\ Len(eContent) = 2
  /\ eContent[1].k = "img"
  /\ ClassOf(SrcValueOf(eContent[1])) = "inline-data"
  /\ eContent[2].k = "img"
  /\ FileOf(eContent[2]) \in eReadable
  /\ eOut[1][2] # eContent[2]
  /\ eOut[2] = eOut[1]

C13_ReadFailureLeavesReference ==
  ePc # "in" =>
    /\ eErr[1] = "ok"
    /\ Len(eOut[1]) = Len(eContent)
    /\ \A i \in ImageRefs(eContent) :
         ClassOf(SrcValueOf(eContent[i])) = "local-relative"
           => IF FileOf(eContent[i]) \in eReadable
                THEN IsDataReference(eOut[1][i]) /\ eOut[1][i] # eContent[i]
                ELSE eOut[1][i] = eContent[i]

\* An unreadable local image before a readable one: the first kept, the
\* second embedded.
C13_Witness ==
  /\ ePc = "once"
  /\ Len(eContent) = 2
  /\ eContent[1].k = "img"
  /\ ClassOf(SrcValueOf(eContent[1])) = "local-relative"
  /\ FileOf(eContent[1]) \notin eReadable
  /\ eOut[1][1] = eContent[1]
  /\ eContent[2].k = "img"
  /\ FileOf(eContent[2]) \in eReadable
  /\ IsDataReference(eOut[1][2])
  /\ eErr[1] = "ok"


\* ---------------------------------------------------------------- hydrator
\* The four document-level markers, as the specification words them: a
\* doctype declaration, a root html element, a head section (the element
\* named head), a style block.
HasDocumentMarker(content) ==
  \E i \in DOMAIN content :
    /\ content[i].k = "text"
    /\ \/ ToLower(content[i].v) \in {"<!doctype", "<html", "<style"}
       \/ /\ ToLower(content[i].v) = "<head"
          /\ ~(i < Len(content) /\ content[i + 1].k = "text" /\ content[i + 1].v = "er>")

\* C14 (as claimed): a rendered document is wrapped at most once; from a
\* markdown template always, from any other template exactly when its
\* content has none of the four document-level markers.
C14_WrappedIffNoDocumentMarker ==
  \A i \in DOMAIN hDocs :
    hDocs[i].err # "execute" =>
      /\ hDocs[i].wraps <= 1
      /\ hIsMarkdown => hDocs[i].wraps = 1
      /\ ~hIsMarkdown => (hDocs[i].wraps = 1 <=> ~HasDocumentMarker(hDocs[i].content))


\* --------------------------------------------------------------- dashboard
\* The places of the entries in the catalog of a run.
PlacesOf(run) ==
  { << i, j >> \in (DOMAIN run.ordered) \X (1..Cardinality(run.tree)) :
      j \in DOMAIN run.ordered[i].Files }

EntryAt(run, pl) == run.ordered[pl[1]].Files[pl[2]]

\* The path of a catalog path under the scan root.
InTree(rel) == DashSource \o rel

\* A name of the companion convention <name>_src.zip.
IsCompanionName(name) == Len(name) > 1 /\ name[Len(name)] = "_src.zip"

NameStem(name) == SubSeq(name, 1, Len(name) - 1)

\* C15: an entry has a companion archive path only if that archive is a
\* file of the scanned tree named <name>_src.zip, the entry is <name>.pdf
\* and both are in the same directory; no archive is the companion of two
\* entries.
C15_CompanionOnlyForPairedPdf ==
  \A r \in DOMAIN dOut :
    /\ \A pl \in PlacesOf(dOut[r]) :
         LET e == EntryAt(dOut[r], pl)
         IN e.Zip # <<>> =>
              /\ InTree(e.Zip) \in dOut[r].tree
              /\ IsCompanionName(Base(e.Zip))
              /\ e.Name = NameStem(Base(e.Zip)) \o <<".pdf">>
              /\ Base(e.Path) = e.Name
              /\ Dir(InTree(e.Path)) = Dir(InTree(e.Zip))
    /\ \A p1, p2 \in PlacesOf(dOut[r]) :
         (p1 # p2 /\ EntryAt(dOut[r], p1).Zip # <<>>)
           => EntryAt(dOut[r], p1).Zip # EntryAt(dOut[r], p2).Zip

\* A catalog in which a/demo.pdf has its companion while b/demo.pdf, of the
\* same name in another folder, has none.
C15_Witness ==
  \E r \in DOMAIN dOut :
    \E p1, p2 \in PlacesOf(dOut[r]) :
      /\ EntryAt(dOut[r], p1).Path = << <<"a">>, <<"demo", ".pdf">> >>
      /\ EntryAt(dOut[r], p1).Zip = << <<"a">>, <<"demo", "_src.zip">> >>
      /\ EntryAt(dOut[r], p2).Path = << <<"b">>, <<"demo", ".pdf">> >>
      /\ EntryAt(dOut[r], p2).Zip = <<>>

\* C16: no entry of a catalog has a name of the companion convention, and
\* a folder holding just demo.pdf and demo_src.zip has the one entry
\* demo.pdf, with demo_src.zip as its companion.
C16_ArchivesNeverListed ==
  \A r \in DOMAIN dOut :
    /\ \A pl \in PlacesOf(dOut[r]) : ~IsCompanionName(EntryAt(dOut[r], pl).Name)
    /\ \A i \in DOMAIN dOut[r].ordered :
         LET folder == dOut[r].ordered[i].Folder
         IN { p \in dOut[r].tree : Dir(p) = folder }
              = { Append(folder, <<"demo", ".pdf">>), Append(folder, <<"demo", "_src.zip">>) }
            => dOut[r].ordered[i].Files
                 = << [Name |-> <<"demo", ".pdf">>,
                       Path |-> Rel(DashSource, Append(folder, <<"demo", ".pdf">>)),
                       Zip |-> Rel(DashSource, Append(folder, <<"demo", "_src.zip">>))] >>

\* The folder a holding demo.pdf and demo_src.zip only, next to an archive
\* without its PDF in the scan root.
C16_Witness ==
  \E r \in DOMAIN dOut :
    /\ dOut[r].tree = { << <<"output">>, <<"a">>, <<"demo", ".pdf">> >>,
                        << <<"output">>, <<"a">>, <<"demo", "_src.zip">> >>,
                        << <<"output">>, <<"demo", "_src.zip">> >> }
    /\ Len(dOut[r].ordered) = 1
    /\ Len(dOut[r].ordered[1].Files) = 1
    /\ dOut[r].ordered[1].Files[1].Zip = << <<"a">>, <<"demo", "_src.zip">> >>

\* C17 (as claimed): demo_src.zip in a directory without demo.pdf is an
\* entry of the catalog, with no companion.
C17_UnpairedArchiveListed ==
  \A r \in DOMAIN dOut :
    \A z \in dOut[r].tree :
      (/\ Base(z) = <<"demo", "_src.zip">>
       /\ Append(Dir(z), <<"demo", ".pdf">>) \notin dOut[r].tree)
      => \E pl \in PlacesOf(dOut[r]) :
           /\ EntryAt(dOut[r], pl).Name = <<"demo", "_src.zip">>
           /\ EntryAt(dOut[r], pl).Path = Rel(DashSource, z)
           /\ EntryAt(dOut[r], pl).Zip = <<>>


\* The catalogs a run wrote.
CatalogsOf(run) == Range(run.html \o run.md)

\* C18: in every catalog the folders of the sections ascend strictly (no
\* folder has two sections) and so do the file names within each section.
C18_SectionsAndEntriesSorted ==
  \A r \in DOMAIN dOut :
    \A c \in CatalogsOf(dOut[r]) \cup {[file |-> <<>>, sections |-> dOut[r].ordered]} :
      /\ \A i, j \in DOMAIN c.sections :
           i < j => FolderLess(c.sections[i].Folder, c.sections[j].Folder)
      /\ \A i \in DOMAIN c.sections :
           \A j, k \in DOMAIN c.sections[i].Files :
             j < k => NameLess(c.sections[i].Files[j].Name, c.sections[i].Files[k].Name)

\* A written catalog of three sections, the one of folder b with the two
\* entries Zeta.pdf and _src.zip.
C18_Witness ==
  \E r \in DOMAIN dOut :
    \E c \in CatalogsOf(dOut[r]) :
      /\ Len(c.sections) = 3
      /\ c.sections[3].Folder = << <<"output">>, <<"b">> >>
      /\ Len(c.sections[3].Files) = 2
      /\ c.sections[3].Files[1].Name = <<"Zeta", ".pdf">>
      /\ c.sections[3].Files[2].Name = <<"_src.zip">>

\* C19: two consecutive runs that saw the same tree wrote the same
\* catalogs, encoding by encoding.
C19_UnchangedTreeSameCatalog ==
  \A r \in DOMAIN dOut :
    (r + 1 \in DOMAIN dOut /\ dOut[r].tree = dOut[r + 1].tree)
      => /\ dOut[r].html = dOut[r + 1].html
         /\ dOut[r].md = dOut[r + 1].md

\* The second and third run over a tree of two folders that the first run
\* put its two catalogs into.
C19_Witness ==
  /\ Len(dOut) = 3
  /\ dOut[1].tree # dOut[2].tree
  /\ dOut[2].tree = dOut[3].tree
  /\ Len(dOut[3].html) = 1
  /\ Len(dOut[3].md) = 1
  /\ Len(dOut[3].html[1].sections) >= 2
  /\ dOut[2].html = dOut[3].html
  /\ dOut[2].md = dOut[3].md

\* Source-control discovery, as the specification words it: the remote is
\* known when the command answers with a GitHub remote, the branch when its
\* command answers.
RemoteDetermined == ~dGit.remoteErr /\ dGit.remote[1] \in {"git@github.com:", "https://github.com/"}

BranchDetermined == ~dGit.branchErr /\ dGit.branch # ""

\* The link of a path of the tree under the remote and the branch, and
\* relative to the directory of the catalog file.
RemoteLink(rel) ==
  <<"https://github.com/", "u/r", "/", dGit.branch, "/">> \o UrlEncodePath(InTree(rel))

RelativeLink(c, rel) == UrlEncodePath(Rel(Dir(c.file), InTree(rel)))

\* C20 (as claimed): in the markdown catalog every entry and companion
\* link is under <remote>/<branch>/ when discovery determined both, and
\* relative to the directory of the catalog file when any step failed.
C20_AddressingByDiscovery ==
  \A r \in DOMAIN dOut :
    \A c \in Range(dOut[r].md) :
      \A i \in DOMAIN c.sections :
        \A j \in DOMAIN c.sections[i].Files :
          LET e == dOut[r].ordered[i].Files[j]
              row == c.sections[i].Files[j]
          IN IF RemoteDetermined /\ BranchDetermined
               THEN /\ row.Path = RemoteLink(e.Path)
                    /\ e.Zip # <<>> => row.Zip = RemoteLink(e.Zip)
               ELSE /\ row.Path = RelativeLink(c, e.Path)
                    /\ e.Zip # <<>> => row.Zip = RelativeLink(c, e.Zip)


\* The places of the rows of a written catalog.
RowsOf(c) ==
  { << i, j >> \in (DOMAIN c.sections) \X (1..(MaxFiles + 2)) :
      j \in DOMAIN c.sections[i].Files }

\* A path as a string, and a link with its percent-escapes decoded.
PathString(path) == StringsJoin(path, <<"/">>)

Unescape(link) ==
  [k \in DOMAIN link |->
     CASE link[k] = "%2F" -> "/"
       [] link[k] = "my%20notes" -> "my notes"
       [] OTHER -> link[k]]

\* No character unsafe in a hyperlink (a space) is in the link.
SafeLink(link) == \A k \in DOMAIN link : link[k] # "my notes"

\* The link is the percent-escaped form of the path rel of the scan tree,
\* addressed from the directory of the catalog or from the remote.
EscapedLinkOf(c, link, rel) ==
  /\ SafeLink(link)
  /\ \/ Unescape(link) = PathString(Rel(Dir(c.file), InTree(rel)))
     \/ /\ Len(link) > 5
        /\ SubSeq(link, 1, 2) = <<"https://github.com/", "u/r">>
        /\ link[3] = "/" /\ link[5] = "/"
        /\ Unescape(SubSeq(link, 6, Len(link))) = PathString(InTree(rel))

\* C21: every entry link and every companion link of a written catalog is
\* the percent-escaped form of the path it addresses, with no space in it.
C21_LinksPercentEscaped ==
  \A r \in DOMAIN dOut :
    \A c \in CatalogsOf(dOut[r]) :
      \A pl \in RowsOf(c) :
        LET e == dOut[r].ordered[pl[1]].Files[pl[2]]
            row == c.sections[pl[1]].Files[pl[2]]
        IN /\ EscapedLinkOf(c, row.Path, e.Path)
           /\ e.Zip # <<>> => EscapedLinkOf(c, row.Zip, e.Zip)

\* Both catalogs written with a/my notes.txt in them: relative in the HTML
\* catalog, under the remote in the markdown catalog.
C21_Witness ==
  \E r \in DOMAIN dOut :
    /\ Len(dOut[r].html) = 1
    /\ Len(dOut[r].md) = 1
    /\ \E pl \in RowsOf(dOut[r].html[1]) :
         /\ dOut[r].ordered[pl[1]].Files[pl[2]].Name = <<"my notes", ".txt">>
         /\ dOut[r].html[1].sections[pl[1]].Files[pl[2]].Path
              = <<"a", "%2F", "my%20notes", ".txt">>
         /\ dOut[r].md[1].sections[pl[1]].Files[pl[2]].Path
              = <<"https://github.com/", "u/r", "/", "dev", "/",
                  "output", "%2F", "a", "%2F", "my%20notes", ".txt">>


\* C23: every file of the scanned tree that is not a <name>_src.zip archive
\* is one entry of the catalog, in the section of its folder; no other file
\* is an entry; a .zip entry has no companion.
C23_EveryOtherFileListedOnce ==
  \A r \in DOMAIN dOut :
    /\ \A p \in dOut[r].tree :
         Cardinality({ pl \in PlacesOf(dOut[r]) :
                         EntryAt(dOut[r], pl).Path = Rel(DashSource, p) })
           = IF IsCompanionName(Base(p)) THEN 0 ELSE 1
    /\ \A pl \in PlacesOf(dOut[r]) :
         LET e == EntryAt(dOut[r], pl)
         IN /\ InTree(e.Path) \in dOut[r].tree
            /\ dOut[r].ordered[pl[1]].Folder = Dir(InTree(e.Path))
            /\ e.Name = Base(e.Path)
            /\ e.Name[Len(e.Name)] \in {".zip", "_src.zip"} => e.Zip = <<>>

\* a/notes.zip listed as an entry next to a/demo.pdf with its companion.
C23_Witness ==
  \E r \in DOMAIN dOut :
    /\ Len(dOut[r].ordered) = 1
    /\ Len(dOut[r].ordered[1].Files) = 2
    /\ dOut[r].ordered[1].Files[1].Zip = << <<"a">>, <<"demo", "_src.zip">> >>
    /\ dOut[r].ordered[1].Files[2]
         = [Name |-> <<"notes", ".zip">>, Path |-> << <<"a">>, <<"notes", ".zip">> >>,
            Zip |-> <<>>]

\* C28 (as claimed): the link of an entry in a subfolder of the scan root,
\* and of its companion, has no escaped separator in it.
C28_LinksKeepSeparators ==
  \A r \in DOMAIN dOut :
    \A c \in CatalogsOf(dOut[r]) :
      \A pl \in RowsOf(c) :
        LET e == dOut[r].ordered[pl[1]].Files[pl[2]]
            row == c.sections[pl[1]].Files[pl[2]]
        IN Len(e.Path) > 1 =>
             /\ \A k \in DOMAIN row.Path : row.Path[k] # "%2F"
             /\ \A k \in DOMAIN row.Zip : row.Zip[k] # "%2F"

\* The catalog path is inside the scan root.
OutputInScanRoot == Dir(dOutput) = DashSource

\* The catalog files a run wrote.
WrittenBy(run) == { c.file : c \in CatalogsOf(run) }

ListedBy(run) == { InTree(EntryAt(run, pl).Path) : pl \in PlacesOf(run) }

\* C29: with the catalog path inside the scan root, a run lists only files
\* that were there before it wrote; the next run lists the catalog files it
\* wrote, as entries with no companion; from the second run on the catalogs
\* of consecutive runs are the same.
C29_RepeatedRunsFixedPoint ==
  OutputInScanRoot =>
    \A r \in DOMAIN dOut :
      /\ ListedBy(dOut[r]) \subseteq dOut[r].tree
      /\ r = 1 => ListedBy(dOut[r]) \cap WrittenBy(dOut[r]) = {}
      /\ r + 1 \in DOMAIN dOut =>
           /\ WrittenBy(dOut[r]) \subseteq ListedBy(dOut[r + 1])
           /\ \A pl \in PlacesOf(dOut[r + 1]) :
                InTree(EntryAt(dOut[r + 1], pl).Path) \in WrittenBy(dOut[r])
                  => EntryAt(dOut[r + 1], pl).Zip = <<>>
           /\ r >= 2 => (dOut[r].html = dOut[r + 1].html /\ dOut[r].md = dOut[r + 1].md)

\* Three runs writing both catalogs into the scan root: the first lists
\* neither, the second and the third list both and write the same.
C29_Witness ==
  /\ OutputInScanRoot
  /\ Len(dOut) = 3
  /\ Cardinality(WrittenBy(dOut[1])) = 2
  /\ ListedBy(dOut[1]) # {}
  /\ ListedBy(dOut[1]) \cap WrittenBy(dOut[1]) = {}
  /\ WrittenBy(dOut[1]) \subseteq ListedBy(dOut[2])
  /\ dOut[1].html # dOut[2].html
  /\ dOut[2].html = dOut[3].html
  /\ dOut[2].md = dOut[3].md


\* ------------------------------------------------------ companion archives
\* C22 (as claimed): in a subfolders job every archive creation follows the
\* successful publication of the artifact of a marker file beside which a
\* src subdirectory exists, writes <outputDir>/<folderName>_src.zip, and
\* its failure neither removes that artifact nor stops the loop.
C22_ArchiveAfterPublishOnlyWithSrcDir ==
  (pc \in {"sub", "ret"} /\ jobs[ji].Type = "subfolders")
  => /\ \A i \in DOMAIN zips :
          LET folder == Dir(zips[i].src)
          IN /\ zips[i].src \in SrcSubdirs
             /\ zips[i].zip = Join(jobs[ji].Output, Base(folder) \o <<"_src.zip">>)
             /\ \E k \in DOMAIN renders :
                  /\ renders[k].ok
                  /\ Dir(renders[k].md) = folder
                  /\ renders[k].out \in written
     /\ (pc = "ret" /\ mkdirs # {})
          => Len(renders) = Len(SelectSeq(matches, LAMBDA m : Base(m) = README))

\* ------------------------------------------------------- temporary files
\* C24: once a merge job or a render call has returned, on whichever exit
\* path, none of the temporary files it created exists any more.
C24_NoTemporaryFileLeft ==
  (pc \in {"sub", "ret", "done"}) => temps = {}

\* A subfolders job whose two render calls both failed, the second by the
\* renderer timing out after the temporary HTML file was written.
C24_Witness ==
  /\ Returned("subfolders")
  /\ Len(renders) = 2
  /\ ~renders[1].ok
  /\ lastErr = "timeout"
  /\ temps = {}

\* ------------------------------------------------------ configuration
\* C26: when loadConfig returns an error the run ends there: no job is
\* executed, no directory, artifact or archive is created, and no step
\* follows.
C26_ConfigErrorIsFatal ==
  (cfgErr # "ok")
  => /\ pc = "fatal"
     /\ attempted = <<>>
     /\ results = <<>>
     /\ mkdirs = {}
     /\ renders = <<>>
     /\ written = {}
     /\ zips = <<>>
     /\ disk = EmptyMap
     /\ ~ENABLED Next

\* The configuration file did not parse.
C26_Witness ==
  /\ cfgErr = "parseyaml"
  /\ pc = "fatal"
  /\ attempted = <<>>

\* ------------------------------------------------------- failed renders
\* C27: a render call that fails in the renderer (error or timeout) leaves
\* the output files as they were, and the output files change only in a
\* render call that got past the renderer.
C27_FailedRenderLeavesOutput ==
  [][ /\ (renders' # renders /\ lastErr' \in {"chrome", "timeout"})
           => disk' = disk
      /\ (renders' # <<>> /\ disk' # disk)
           => (renders' # renders /\ lastErr' \in {"ok", "writepdf"}) ]_vars

\* Two marker files of one subfolders job share an output path: the first
\* render published it, the second timed out and the first content is still
\* there, complete.
C27_Witness ==
  /\ pc = "sub"
  /\ Len(renders) = 2
  /\ renders[1].ok
  /\ renders[2].out = renders[1].out
  /\ renders[2].doc # renders[1].doc
  /\ lastErr = "timeout"
  /\ DOMAIN disk = { renders[1].out }
  /\ disk[renders[1].out] = [doc |-> renders[1].doc, complete |-> TRUE]

\* ------------------------------------------------- matches without marker
\* C30: a subfolders job whose pattern matches files none of which is a
\* README.md returns no error once its output directory is created, and
\* renders, writes and archives nothing; a combine job on such matches
\* returns the no-marker-files error.
C30_NoMarkerAmongMatches ==
  (pc = "ret" /\ Len(matches) > 0 /\ mkdirs # {}
     /\ \A i \in DOMAIN matches : Base(matches[i]) # README)
  => /\ jobs[ji].Type = "subfolders"
          => /\ LastRes = "ok"
             /\ mkdirs = { jobs[ji].Output }
             /\ renders = <<>>
             /\ written = {}
             /\ zips = <<>>
             /\ disk = EmptyMap
     /\ jobs[ji].Type = "combine"
          => /\ LastRes = "noreadme"
             /\ renders = <<>>
             /\ written = {}

\* A combine job failed for want of a marker file, and the subfolders job
\* after it returned without error on a match that is no marker file.
C30_Witness ==
  /\ Returned("subfolders")
  /\ ji = 2
  /\ jobs[1].Type = "combine"
  /\ results = <<"noreadme", "ok">>
  /\ matches = << << <<"a">>, NOTES >> >>
  /\ mkdirs = { jobs[ji].Output }
  /\ renders = <<>>
  /\ written = {}

\* ------------------------------------------------------- killed process
\* C25 (as claimed): when the process is killed during a run, every output
\* file is its complete previous version or its complete new version.
C25_KilledRunLeavesWholeFiles ==
  (wPc = "killed")
  => \A f \in Range(wRun) :
       \/ wDisk[f] = wPrior[f]
       \/ (wDisk[f].ver = "new" /\ wDisk[f].written = wDisk[f].total)

====
